---- MODULE Spec2Model ----
(***************************************************************************)
(* OllamaPy skill registry (src/src/ollamapy/skills.py) and the routes of  *)
(* the skill editor that write to it (src/src/ollamapy/skill_editor/).     *)
(*                                                                         *)
(* Abstractions.                                                           *)
(*  - A skill's function_code is one of five texts, told apart by what the  *)
(*    compiler (exec + the 'execute' checks) and the validator (ast.parse  *)
(*    + ast.walk) do with them.  Exceptions are Exception subclasses; a    *)
(*    text that raises BaseException (sys.exit()) is not among the five.   *)
(*  - The eight built-in skills are represented by one verified skill      *)
(*    ("fear") and the one unverified built-in ("customPythonShell").      *)
(*  - datetime.now() reads a logical clock that ticks once per operation   *)
(*    that reads it.                                                       *)
(*  - open(..., 'w') in save_skill either succeeds or raises OSError.      *)
(*  - A compiled callable, when run, either returns after logging one      *)
(*    line, or raises.                                                     *)
(***************************************************************************)
EXTENDS Integers, Sequences, FiniteSets, TLC

VARIABLES skills, compiled_functions, store, execution_logs, clock, last,
          printed, clean, actions, queries, selected, answer, sandbox,
          threads, gen

vars == <<skills, compiled_functions, store, execution_logs, clock, last,
          printed, clean, actions, queries, selected, answer, sandbox,
          threads, gen>>

\* The chat session (terminal_chat.py): its table of actions, the oracle
\* queries of the last utterance, the list the selector returned, and the
\* last yes/no answer that was parsed.
chatVars == <<actions, queries, selected, answer>>

\* SafeCodeExecutor.timeout_seconds
timeout_seconds == 10

\* No call of test_code_safely has been made.
NoCall ==
  [pc |-> "idle", candidate |-> <<>>, child |-> "none", pipes |-> "closed",
   elapsed |-> 0, result |-> <<>>]

\* The requests that the middleware server handles at the same time.
Threads == {1, 2}

\* No request has arrived.
NoThreads == [t \in Threads |-> [pc |-> "idle", skill |-> "", read |-> <<>>]]

\* generate_skill has not been called.
NoTest == [attempt |-> 0, function_code |-> "", passed |-> FALSE]

NoGen ==
  [pc |-> "idle", attempt |-> 0, plan |-> <<>>, tested |-> NoTest, made |-> {},
   registered |-> FALSE, success |-> FALSE, attempts |-> 0]

\* ---------------------------------------------------------------- bounds
MaxExec == 2

MaxClock == 2

MaxLog == 2

\* Longest oracle answer, in tokens.
MaxText == 4

\* ------------------------------------------------------------ input sets
Names == {"fear", "customPythonShell", "alpha"}

\* The names the callers of the registry (chat turn, tests, generator) pass:
\* a registered unverified skill and a name that is unknown at first.
UserNames == {"customPythonShell", "alpha"}

BuiltinSeq == <<"fear", "customPythonShell">>

BuiltinNames == {BuiltinSeq[i] : i \in 1..Len(BuiltinSeq)}

BuiltinVerified == {"fear"}

GoodCodes == {"codeA", "codeB"}

\* "no_execute" stands for both failures of the check on namespace['execute']
\* (missing, or bound to something that is not callable).
Codes == GoodCodes \cup {"syntax_error", "no_execute", "nested_execute"}

Outcomes == {"return", "raise", "save_fail"}

IOs == {"ok", "fail"}

\* What the callables of a chat turn do (the store stays writable in a turn).
TurnOutcomes == {"return", "raise"}

\* ------------------------------------------------------- dict primitives
EmptyMap == [x \in {} |-> 0]

Put(f, k, v) == [x \in (DOMAIN f) \cup {k} |-> IF x = k THEN v ELSE f[x]]

Del(f, k) == [x \in (DOMAIN f) \ {k} |-> f[x]]

\* ------------------------------------------------------------ data model
Skill(n, c, v, cnt, lm) ==
  [name |-> n, function_code |-> c, verified |-> v,
   execution_count |-> cnt, last_modified |-> lm]

LogLine(tag, n) == [tag |-> tag, name |-> n]

\* The registry object together with the store directory and the clock.
Cur ==
  [skills |-> skills, compiled |-> compiled_functions, store |-> store,
   logs |-> execution_logs, clock |-> clock, ok |-> TRUE, raised |-> FALSE,
   status |-> 0, printed |-> printed]

log(r, line) == [r EXCEPT !.logs = Append(@, line)]

clear_logs(r) == [r EXCEPT !.logs = <<>>]

\* exec(function_code) followed by the two checks on namespace['execute'].
compile_skill_function(code) ==
  IF code \in GoodCodes
    THEN [ok |-> TRUE, func |-> code]
    ELSE [ok |-> FALSE, func |-> "none"]

\* The names bound in the namespace that _compile_skill_function passes to
\* exec as the globals of the callable; exec adds __builtins__ to a dict
\* that has none.
namespace ==
  {"log", "os", "datetime", "math", "json", "Path", "subprocess", "sys",
   "__builtins__"}

\* What a name of the namespace hands to the code: log is the bound method
\* self.log, whose __self__ is the registry.
Handles(name) ==
  CASE name = "log" -> {"log", "registry"}
    [] name = "os" -> {"environment", "spawn", "files"}
    [] name = "datetime" -> {"time"}
    [] name = "math" -> {"math"}
    [] name = "json" -> {"json"}
    [] name = "Path" -> {"file_read", "files"}
    [] name = "subprocess" -> {"spawn"}
    [] name = "sys" -> {"interpreter"}
    [] name = "__builtins__" -> {"file_read", "files", "import"}
    [] OTHER -> {}

\* What the callable compiled from a skill's code can use.
Capabilities(func) ==
  IF func = "none" THEN {} ELSE UNION {Handles(name) : name \in namespace}

\* Variant: a record file that exists is not written again.
save_skill_keepsOldFile(r, skill, io) ==
  IF io = "ok"
    THEN [r EXCEPT !.store = IF skill.name \in DOMAIN @ THEN @
                              ELSE Put(@, skill.name, skill)]
    ELSE [r EXCEPT !.raised = TRUE]

\* open(skill_file, 'w') + json.dump; io = "fail" is open() raising.
save_skill(r, skill, io) ==
  IF io = "ok"
    THEN [r EXCEPT !.store = Put(@, skill.name, skill)]
    ELSE [r EXCEPT !.raised = TRUE]

\* Variant: the skill is put in the map before its code is compiled.
register_skill_storeBeforeCompile(r, skill, io) ==
  LET c == compile_skill_function(skill.function_code)
      r0 == [r EXCEPT !.skills = Put(@, skill.name, skill)]
  IN IF ~c.ok
       THEN [log(r0, LogLine("reg_error", skill.name)) EXCEPT !.ok = FALSE]
       ELSE
         LET r1 == [r0 EXCEPT !.compiled = Put(@, skill.name, c.func)]
             r2 == save_skill(r1, skill, io)
         IN IF r2.raised
              THEN [log(r1, LogLine("reg_error", skill.name)) EXCEPT !.ok = FALSE]
              ELSE [r2 EXCEPT !.ok = TRUE]

\* Variant: re-registration keeps the record that is in the map.
register_skill_keepsRecord(r, skill, io) ==
  LET c == compile_skill_function(skill.function_code) IN
  IF ~c.ok
    THEN [log(r, LogLine("reg_error", skill.name)) EXCEPT !.ok = FALSE]
    ELSE
      LET r1 == [r EXCEPT !.skills = IF skill.name \in DOMAIN @ THEN @
                                     ELSE Put(@, skill.name, skill),
                          !.compiled = Put(@, skill.name, c.func)]
          r2 == save_skill(r1, skill, io)
      IN IF r2.raised
           THEN [log(r1, LogLine("reg_error", skill.name)) EXCEPT !.ok = FALSE]
           ELSE [r2 EXCEPT !.ok = TRUE]

\* Variant: re-registration keeps the callable compiled earlier.
register_skill_staleFunc(r, skill, io) ==
  LET c == compile_skill_function(skill.function_code) IN
  IF ~c.ok
    THEN [log(r, LogLine("reg_error", skill.name)) EXCEPT !.ok = FALSE]
    ELSE
      LET r1 == [r EXCEPT !.skills = Put(@, skill.name, skill),
                          !.compiled = IF skill.name \in DOMAIN @ THEN @
                                       ELSE Put(@, skill.name, c.func)]
          r2 == save_skill(r1, skill, io)
      IN IF r2.raised
           THEN [log(r1, LogLine("reg_error", skill.name)) EXCEPT !.ok = FALSE]
           ELSE [r2 EXCEPT !.ok = TRUE]

register_skill(r, skill, io) ==
  LET c == compile_skill_function(skill.function_code) IN
  IF ~c.ok
    THEN [log(r, LogLine("reg_error", skill.name)) EXCEPT !.ok = FALSE]
    ELSE
      LET r1 == [r EXCEPT !.skills = Put(@, skill.name, skill),
                          !.compiled = Put(@, skill.name, c.func)]
          r2 == save_skill(r1, skill, io)
      IN IF r2.raised
           THEN [log(r1, LogLine("reg_error", skill.name)) EXCEPT !.ok = FALSE]
           ELSE [r2 EXCEPT !.ok = TRUE]

\* Variant: the exception of the callable is not caught.
run_skill_reraise(r, n, outcome) ==
  LET s1 == [r.skills[n] EXCEPT !.execution_count = @ + 1]
      r1 == [r EXCEPT !.skills = Put(@, n, s1)]
  IN IF outcome = "raise"
       THEN [r1 EXCEPT !.raised = TRUE]
       ELSE
         LET r2 == log(r1, LogLine("out", n))
             s2 == [s1 EXCEPT !.last_modified = r.clock]
             r3 == [r2 EXCEPT !.skills = Put(@, n, s2), !.clock = @ + 1]
             r4 == save_skill(r3, s2, IF outcome = "save_fail" THEN "fail" ELSE "ok")
         IN IF r4.raised
              THEN log(r3, LogLine("exec_error", n))
              ELSE r4

\* Variant: the count is raised after the callable returned.
run_skill_countOnReturn(r, n, outcome) ==
  IF outcome = "raise"
    THEN log(r, LogLine("exec_error", n))
    ELSE
      LET r2 == log(r, LogLine("out", n))
          s2 == [r.skills[n] EXCEPT !.execution_count = @ + 1,
                                    !.last_modified = r.clock]
          r3 == [r2 EXCEPT !.skills = Put(@, n, s2), !.clock = @ + 1]
          r4 == save_skill(r3, s2, IF outcome = "save_fail" THEN "fail" ELSE "ok")
      IN IF r4.raised
           THEN log(r3, LogLine("exec_error", n))
           ELSE r4

\* execute_skill from "skill.execution_count += 1" on.  outcome says what the
\* call of the compiled function and the save after it do: "return" (both
\* succeed), "raise" (the call raises, prepare_function_parameters included),
\* "save_fail" (the call returns and save_skill raises).
run_skill(r, n, outcome) ==
  LET s1 == [r.skills[n] EXCEPT !.execution_count = @ + 1]
      r1 == [r EXCEPT !.skills = Put(@, n, s1)]
  IN IF outcome = "raise"
       THEN log(r1, LogLine("exec_error", n))
       ELSE
         LET r2 == log(r1, LogLine("out", n))
             s2 == [s1 EXCEPT !.last_modified = r.clock]
             r3 == [r2 EXCEPT !.skills = Put(@, n, s2), !.clock = @ + 1]
             r4 == save_skill(r3, s2, IF outcome = "save_fail" THEN "fail" ELSE "ok")
         IN IF r4.raised
              THEN log(r3, LogLine("exec_error", n))
              ELSE r4

\* Variant: no membership test, so skills[skill_name] raises KeyError.
execute_skill_keyError(r, n, outcome) ==
  IF n \notin DOMAIN r.skills
    THEN [r EXCEPT !.raised = TRUE]
  ELSE IF n \notin DOMAIN r.compiled
    THEN log(r, LogLine("not_compiled", n))
  ELSE run_skill(r, n, outcome)

execute_skill(r, n, outcome) ==
  IF n \notin DOMAIN r.skills
    THEN log(r, LogLine("unknown", n))
  ELSE IF n \notin DOMAIN r.compiled
    THEN log(r, LogLine("not_compiled", n))
  ELSE run_skill(r, n, outcome)

\* The keys of the JSON object that Skill.to_dict writes and that
\* Skill.from_dict (cls(**data)) accepts.
SkillFields ==
  {"name", "function_code", "verified", "execution_count", "last_modified"}

\* A file of the store is represented by the JSON object it holds; a file
\* that json.load cannot parse is the record InvalidJson.
InvalidJson == [invalid_json |-> TRUE]

\* The orders in which glob("*.json") can list the files S.
Orders(S) ==
  {o \in [1..Cardinality(S) -> S] : \A i, j \in DOMAIN o : o[i] = o[j] => i = j}

\* Variant: the first file that cannot be loaded ends the load.
RECURSIVE load_skills_abortOnError(_, _)
load_skills_abortOnError(r, files) ==
  IF files = <<>> THEN r
  ELSE LET f == Head(files)
           data == r.store[f]
       IN IF \/ "invalid_json" \in DOMAIN data
             \/ DOMAIN data # SkillFields
             \/ ~compile_skill_function(data.function_code).ok
            THEN [r EXCEPT !.printed = @ \cup {f}]
            ELSE load_skills_abortOnError(
                   [r EXCEPT !.skills = Put(@, data.name, data),
                             !.compiled = Put(@, data.name,
                                compile_skill_function(data.function_code).func)],
                   Tail(files))

\* load_skills over the files in the order glob lists them: json.load,
\* Skill.from_dict and _compile_skill_function in a try block per file; the
\* except branch prints and goes on to the next file.
RECURSIVE load_skills(_, _)
load_skills(r, files) ==
  IF files = <<>> THEN r
  ELSE LET f == Head(files)
           data == r.store[f]
       IN IF \/ "invalid_json" \in DOMAIN data
             \/ DOMAIN data # SkillFields
             \/ ~compile_skill_function(data.function_code).ok
            THEN load_skills([r EXCEPT !.printed = @ \cup {f}], Tail(files))
            ELSE load_skills(
                   [r EXCEPT !.skills = Put(@, data.name, data),
                             !.compiled = Put(@, data.name,
                                compile_skill_function(data.function_code).func)],
                   Tail(files))

RECURSIVE initialize_builtin_skills(_, _, _, _)
initialize_builtin_skills(r, i, now, ios) ==
  IF i > Len(BuiltinSeq) THEN r
  ELSE LET b == BuiltinSeq[i]
           r1 == register_skill(r, Skill(b, "codeA", b \in BuiltinVerified, 0, now), ios[b])
       IN initialize_builtin_skills(r1, i + 1, now, ios)

\* Variant: the built-in set is installed on every construction.
SkillRegistry_alwaysBootstrap(st, now, ios, files) ==
  LET r0 == [skills |-> EmptyMap, compiled |-> EmptyMap, store |-> st,
             logs |-> <<>>, clock |-> now, ok |-> TRUE, raised |-> FALSE,
             status |-> 0, printed |-> {}]
      r1 == load_skills(r0, files)
  IN [initialize_builtin_skills(r1, 1, now, ios) EXCEPT !.clock = now + 1, !.ok = TRUE]

\* SkillRegistry.__init__ on the directory that holds st.
SkillRegistry(st, now, ios, files) ==
  LET r0 == [skills |-> EmptyMap, compiled |-> EmptyMap, store |-> st,
             logs |-> <<>>, clock |-> now, ok |-> TRUE, raised |-> FALSE,
             status |-> 0, printed |-> {}]
      r1 == load_skills(r0, files)
  IN IF DOMAIN r1.skills = {}
       THEN [initialize_builtin_skills(r1, 1, now, ios) EXCEPT !.clock = now + 1, !.ok = TRUE]
       ELSE r1

\* ------------------------------------------------------------- state
\* last: the operation that produced the current state, the name it was
\* about, what it answered, and the class of its input (for a turn: the
\* list of skills and what each callable did).
Op(op, n, res, input) == [op |-> op, name |-> n, res |-> res, input |-> input]

Bounded(r) ==
  /\ r.clock <= MaxClock
  /\ Len(r.logs) <= MaxLog
  /\ \A n \in DOMAIN r.skills : r.skills[n].execution_count <= MaxExec

\* The registry, the store and the clock after an operation.
InstallRegistry(r) ==
  /\ skills' = r.skills
  /\ compiled_functions' = r.compiled
  /\ store' = r.store
  /\ execution_logs' = r.logs
  /\ clock' = r.clock
  /\ printed' = r.printed

Install(r) ==
  /\ InstallRegistry(r)
  /\ UNCHANGED <<chatVars, sandbox, threads, gen>>

\* clean: every operation so far was a registration that returned True (the
\* registrations of the built-in bootstrap included) or a construction of
\* the registry on the store.
InitRegistry ==
  \E ios \in [BuiltinNames -> IOs] :
    LET r == SkillRegistry(EmptyMap, 0, ios, <<>>) IN
      /\ skills = r.skills
      /\ compiled_functions = r.compiled
      /\ store = r.store
      /\ execution_logs = r.logs
      /\ clock = r.clock
      /\ printed = r.printed
      /\ clean = (\A b \in BuiltinNames : ios[b] = "ok")
      /\ last = Op("init", "", "", "")

\* No chat session yet.
Init ==
  /\ InitRegistry
  /\ actions = <<>>
  /\ queries = <<>>
  /\ selected = <<>>
  /\ answer = [text |-> <<>>, asked |-> FALSE, result |-> FALSE]
  /\ sandbox = NoCall
  /\ threads = NoThreads
  /\ gen = NoGen

Execute ==
  \E n \in UserNames, o \in Outcomes :
    LET r == execute_skill(Cur, n, o) IN
      /\ Bounded(r)
      /\ Install(r)
      /\ last' = Op("execute", n, IF r.raised THEN "raised" ELSE "returned", o)
      /\ clean' = FALSE

\* ------------------------------------------------ terminal_chat.py turn
RECURSIVE execute_all(_, _, _, _)
execute_all(r, list, outs, i) ==
  IF i > Len(list) \/ r.raised THEN r
  ELSE execute_all(execute_skill(r, list[i], outs[i]), list, outs, i + 1)

\* Variant: the log is not cleared at the start of the turn.
execute_multiple_actions_noClear(r, list, outs) ==
  IF list = <<>> THEN r
  ELSE execute_all(r, list, outs, 1)

execute_multiple_actions(r, list, outs) ==
  IF list = <<>> THEN r
  ELSE execute_all(clear_logs(r), list, outs, 1)

\* ------------------------------------------------- skill_editor/api.py
\* The JSON body of a request as the create page and the tests send it:
\* verified is false and there is no execution_count, so the dataclass
\* default applies.  The "parameters" object declares no parameter or one.
valid_parameter_types == {"string", "number", "boolean"}

ParameterObjects ==
  {EmptyMap} \cup
  {[p \in {"arg"} |-> [type |-> t]] : t \in valid_parameter_types \cup {"invalid_type"}}

\* Every name and code without parameters, and one name and one code that
\* compiles with every parameters object.
Payloads ==
  [name : Names, function_code : Codes, parameters : {EmptyMap}] \cup
  [name : {"alpha"}, function_code : {"codeA"}, parameters : ParameterObjects]

\* Variant: a type that is not a valid one is taken as "string".
validate_parameters_coerce(params) == TRUE

\* _validate_parameters: an error for every parameter whose type is not one
\* of valid_parameter_types.
validate_parameters(params) ==
  \A p \in DOMAIN params : params[p].type \in valid_parameter_types

\* _validate_function_code: ast.parse succeeds and ast.walk finds a
\* FunctionDef named execute (at any nesting depth).
validate_function_code(code) == code \in GoodCodes \cup {"nested_execute"}

validate_skill_data(data) ==
  /\ data.parameters # EmptyMap => validate_parameters(data.parameters)
  /\ validate_function_code(data.function_code)

from_dict(data, n, now) == Skill(n, data.function_code, FALSE, 0, now)

update_skill(r, n, data, io) ==
  IF n \notin DOMAIN r.skills THEN [r EXCEPT !.status = 404]
  ELSE IF r.skills[n].verified THEN [r EXCEPT !.status = 403]
  ELSE IF ~validate_skill_data(data) THEN [r EXCEPT !.status = 400]
  ELSE LET r1 == register_skill([r EXCEPT !.clock = @ + 1],
                                from_dict(data, n, r.clock), io)
       IN [r1 EXCEPT !.status = IF r1.ok THEN 200 ELSE 500]

\* Variant: the record's file is not removed.
delete_skill_keepsFile(r, n) ==
  IF n \notin DOMAIN r.skills THEN [r EXCEPT !.status = 404]
  ELSE IF r.skills[n].verified THEN [r EXCEPT !.status = 403]
  ELSE [r EXCEPT !.skills = Del(@, n), !.compiled = Del(@, n), !.status = 200]

delete_skill(r, n) ==
  IF n \notin DOMAIN r.skills THEN [r EXCEPT !.status = 404]
  ELSE IF r.skills[n].verified THEN [r EXCEPT !.status = 403]
  ELSE [r EXCEPT !.skills = Del(@, n), !.compiled = Del(@, n),
                 !.store = Del(@, n), !.status = 200]

create_skill(r, data, io) ==
  IF data.name \in DOMAIN r.skills THEN [r EXCEPT !.status = 409]
  ELSE LET rt == [r EXCEPT !.clock = @ + 1] IN
       IF ~validate_skill_data(data) THEN [rt EXCEPT !.status = 400]
       ELSE LET r1 == register_skill(rt, from_dict(data, data.name, r.clock), io)
            IN [r1 EXCEPT !.status = IF r1.ok THEN 200 ELSE 500]

\* One entry (key, data) of the "skills" object of an import request.
import_skills(r, key, data, io) ==
  IF key \in DOMAIN r.skills THEN [r EXCEPT !.status = 200, !.ok = FALSE]
  ELSE IF ~validate_skill_data(data) THEN [r EXCEPT !.status = 200, !.ok = FALSE]
  ELSE LET r1 == register_skill([r EXCEPT !.clock = @ + 1],
                                from_dict(data, data.name, r.clock), io)
       IN [r1 EXCEPT !.status = 200]

\* --------------------------------------------------------------- actions
\* register_skill called by a program that built the Skill itself: a fresh
\* one (execution_count 0) or one that carries the stored count over.
Register ==
  \E n \in UserNames, c \in Codes, v \in {FALSE}, io \in IOs :
    \E cnt \in {0} \cup {skills[m].execution_count : m \in {n} \cap DOMAIN skills} :
      LET r == register_skill([Cur EXCEPT !.clock = @ + 1],
                              Skill(n, c, v, cnt, clock), io) IN
        /\ Bounded(r)
        /\ Install(r)
        /\ last' = Op("register", n,
                      IF r.raised THEN "raised" ELSE IF r.ok THEN "True" ELSE "False",
                      IF c \notin GoodCodes THEN "compile_error"
                      ELSE IF io = "fail" THEN "save_error" ELSE "ok")
        /\ clean' = (clean /\ r.ok /\ ~r.raised)

ClearLogs ==
  /\ execution_logs # <<>>
  /\ Install(clear_logs(Cur))
  /\ last' = Op("clear_logs", "", "", "")
  /\ clean' = clean

Reload ==
  \E ios \in [BuiltinNames -> IOs], files \in Orders(DOMAIN store) :
    LET r == SkillRegistry(store, clock, ios, files) IN
      /\ Bounded(r)
      /\ Install(r)
      /\ last' = Op("reload", "", IF r.raised THEN "raised" ELSE "returned", "")
      /\ clean' = clean

Turn ==
  \E k \in 1..MaxLog :
    \E list \in [1..k -> UserNames], outs \in [1..k -> TurnOutcomes] :
      LET r == execute_multiple_actions(Cur, list, outs) IN
        /\ Bounded(r)
        /\ Install(r)
        /\ last' = Op("turn", "", IF r.raised THEN "raised" ELSE "returned",
                      [list |-> list, outs |-> outs])
        /\ clean' = FALSE

Update ==
  \E n \in Names, io \in IOs :
    \E data \in {d \in Payloads : d.name = n} :
      LET r == update_skill(Cur, n, data, io) IN
        /\ Bounded(r)
        /\ Install(r)
        /\ last' = Op("update", n, ToString(r.status), data.parameters)
        /\ clean' = FALSE

Delete ==
  \E n \in Names :
    LET r == delete_skill(Cur, n) IN
      /\ Install(r)
      /\ last' = Op("delete", n, ToString(r.status), "")
      /\ clean' = FALSE

Create ==
  \E data \in Payloads, io \in IOs :
    LET r == create_skill(Cur, data, io) IN
      /\ Bounded(r)
      /\ Install(r)
      /\ last' = Op("create", data.name, ToString(r.status), data.parameters)
      /\ clean' = FALSE

Import ==
  \E key \in Names, data \in Payloads, io \in IOs :
    LET r == import_skills(Cur, key, data, io) IN
      /\ Bounded(r)
      /\ Install(r)
      /\ last' = Op("import", data.name, IF r.ok THEN "imported" ELSE "skipped",
                    data.parameters)
      /\ clean' = FALSE

\* Files of the store directory written from outside the registry.
FileNames == UserNames \cup {"corrupted"}

\* What such a file can hold that does not load: text that is not JSON, a
\* JSON object without the required keys, a record whose code does not compile.
CorruptRecords(f) ==
  {InvalidJson, [name |-> f], Skill(f, "syntax_error", FALSE, 0, 0)}

Corrupt ==
  \E f \in FileNames :
    \E c \in CorruptRecords(f) :
      /\ store' = Put(store, f, c)
      /\ UNCHANGED <<skills, compiled_functions, execution_logs, clock, printed>>
      /\ UNCHANGED <<chatVars, sandbox, threads, gen>>
      /\ last' = Op("corrupt", f, "", "")
      /\ clean' = FALSE

\* ------------------------------------- terminal_chat.py: oracle queries
\* A text is a sequence of tokens, each token a piece of the text in full.
AnswerTokens == {"yes", "YES", "no", "maybe", " ", "<think>", "</think>"}

CharLen(tok) ==
  CASE tok = " " -> 1
    [] tok = "no" -> 2
    [] tok \in {"yes", "YES"} -> 3
    [] tok \in {"maybe", "11434", "Paris"} -> 5
    [] tok \in {"Error:", "error:"} -> 6
    [] tok = "<think>" -> 7
    [] tok = "</think>" -> 8
    [] OTHER -> 9

\* str.lower, token by token.
lower(text) ==
  [i \in DOMAIN text |->
     CASE text[i] = "YES" -> "yes"
       [] text[i] = "Error:" -> "error:"
       [] OTHER -> text[i]]

\* str.strip: whitespace removed at both ends.
RECURSIVE lstrip(_)
lstrip(text) ==
  IF text # <<>> /\ Head(text) = " " THEN lstrip(Tail(text)) ELSE text

RECURSIVE rstrip(_)
rstrip(text) ==
  IF text # <<>> /\ text[Len(text)] = " "
    THEN rstrip(SubSeq(text, 1, Len(text) - 1))
    ELSE text

strip(text) == rstrip(lstrip(text))

\* text[:k]: the first k characters; a token that k cuts through leaves a
\* fragment, which is neither whitespace nor a whole token.
RECURSIVE slice(_, _)
slice(text, k) ==
  IF text = <<>> \/ k <= 0 THEN <<>>
  ELSE IF CharLen(Head(text)) <= k
    THEN <<Head(text)>> \o slice(Tail(text), k - CharLen(Head(text)))
    ELSE <<"fragment">>

startswith(text, tok) == text # <<>> /\ Head(text) = tok

\* re.sub(r'<think>.*?</think>', '', text, flags=re.DOTALL): one pass from
\* the left; at an opening marker the match runs to the nearest closing
\* marker after it, and the scan goes on behind the match.
RECURSIVE re_sub_think(_)
re_sub_think(text) ==
  IF text = <<>> THEN <<>>
  ELSE LET closings == {k \in 2..Len(text) : text[k] = "</think>"} IN
       IF Head(text) = "<think>" /\ closings # {}
         THEN LET k == CHOOSE c \in closings : \A d \in closings : c <= d
              IN re_sub_think(SubSeq(text, k + 1, Len(text)))
         ELSE <<Head(text)>> \o re_sub_think(Tail(text))

remove_thinking_blocks(text) == strip(re_sub_think(text))

\* What the oracle does with one query: the chunks it streams, and how the
\* stream ends: "none" (done), "request" (a requests exception: connection
\* refused or broken, HTTP error status, timeout), "other" (any other
\* exception, e.g. a line that is not JSON).
Reply(text, fault) == [text |-> text, fault |-> fault]

\* f"Error: {e}" for a requests exception; the message names the URL.
ErrorText == <<"Error:", "11434">>

\* OllamaClient.chat_stream consumed by "response_content += chunk".
chat_stream(reply) ==
  [content |-> IF reply.fault = "request" THEN reply.text \o ErrorText
               ELSE reply.text,
   raised |-> reply.fault = "other"]

\* The length of the prefix that the second test for "yes" looks at.
YesPrefixLen == 10

\* Variant: "yes" anywhere in the answer counts.
ask_yes_no_question_yesAnywhere(reply) ==
  LET s == chat_stream(reply) IN
  IF s.raised THEN FALSE
  ELSE \E i \in DOMAIN s.content : lower(s.content)[i] = "yes"

ask_yes_no_question(reply) ==
  LET s == chat_stream(reply) IN
  IF s.raised THEN FALSE
  ELSE LET cleaned_response == remove_thinking_blocks(s.content)
           response_lower == strip(lower(cleaned_response))
       IN IF startswith(response_lower, "yes") THEN TRUE
          ELSE IF strip(slice(response_lower, YesPrefixLen)) = <<"yes">> THEN TRUE
          ELSE IF startswith(response_lower, "no") THEN FALSE
          ELSE FALSE

\* The texts of at most n tokens.
Texts(n) == UNION {[1..k -> AnswerTokens] : k \in 0..n}

\* One yes/no question that the oracle answers with the text answer.text.
InitAsk ==
  /\ InitRegistry
  /\ actions = <<>>
  /\ queries = <<>>
  /\ selected = <<>>
  /\ answer \in [text : Texts(MaxText), asked : {FALSE}, result : {FALSE}]
  /\ sandbox = NoCall
  /\ threads = NoThreads
  /\ gen = NoGen

Ask ==
  /\ ~answer.asked
  /\ answer' = [answer EXCEPT !.asked = TRUE,
                              !.result = ask_yes_no_question(Reply(answer.text, "none"))]
  /\ last' = Op("ask", "", "returned", "")
  /\ UNCHANGED <<skills, compiled_functions, store, execution_logs, clock,
                 printed, clean, actions, queries, selected, sandbox,
                 threads, gen>>

NextAsk ==
  \/ Ask

SpecAsk == InitAsk /\ [][NextAsk]_vars

\* ------------------------------------ terminal_chat.py: action selector
\* Skill.parameters of the skill called n, in the order of the dict: the
\* built-ins of the model declare none, "alpha" declares a required string,
\* a number and a boolean.
parameters(n) ==
  IF n = "alpha"
    THEN <<[name |-> "location", type |-> "string", required |-> TRUE],
           [name |-> "number", type |-> "number", required |-> FALSE],
           [name |-> "flag", type |-> "boolean", required |-> FALSE]>>
    ELSE <<>>

None == [type |-> "none", text |-> <<>>]

IsNumber(tok) == tok \in {"16", "11434"}

\* extract_single_parameter after the prompt is built.
extract_single_parameter(param_spec, reply) ==
  LET s == chat_stream(reply) IN
  IF s.raised THEN None
  ELSE LET cleaned_response == strip(remove_thinking_blocks(s.content)) IN
       IF \/ \E i \in DOMAIN cleaned_response :
                cleaned_response[i] \in {"NOT_FOUND", "not_found"}
          \/ cleaned_response = <<>>
         THEN None
       ELSE IF param_spec.type = "number"
         THEN IF Len(cleaned_response) = 1 /\ IsNumber(cleaned_response[1])
                THEN [type |-> "number", text |-> cleaned_response]
              ELSE LET numbers == {i \in DOMAIN cleaned_response :
                                     IsNumber(cleaned_response[i])}
                   IN IF numbers # {}
                        THEN [type |-> "number",
                              text |-> <<cleaned_response[
                                 CHOOSE i \in numbers : \A j \in numbers : i <= j]>>]
                        ELSE None
         ELSE [type |-> "string", text |-> cleaned_response]

YesNoQuery(n) == [kind |-> "yes_no", skill |-> n, param |-> ""]

ExtractQuery(n, p) == [kind |-> "extract", skill |-> n, param |-> p]

\* Variant: a parameter without a value is stored as None.
RECURSIVE extract_parameters_keepsNone(_, _, _, _, _)
extract_parameters_keepsNone(c, n, params, ex, j) ==
  IF j > Len(params) THEN c
  ELSE LET value == extract_single_parameter(params[j], ex[<<n, params[j].name>>])
           c1 == [c EXCEPT !.queries = Append(@, ExtractQuery(n, params[j].name)),
                           !.extracted = Put(@, params[j].name, value)]
       IN extract_parameters_keepsNone(c1, n, params, ex, j + 1)

\* The loop over parameters.items() of a selected action; c holds the
\* queries sent so far, the list selected_actions and extracted_params.
RECURSIVE extract_parameters(_, _, _, _, _)
extract_parameters(c, n, params, ex, j) ==
  IF j > Len(params) THEN c
  ELSE LET value == extract_single_parameter(params[j], ex[<<n, params[j].name>>])
           c1 == [c EXCEPT !.queries = Append(@, ExtractQuery(n, params[j].name)),
                           !.extracted = IF value # None
                                           THEN Put(@, params[j].name, value)
                                           ELSE @]
       IN extract_parameters(c1, n, params, ex, j + 1)

\* Variant: the loop ends at the first action that is selected.
RECURSIVE select_all_applicable_actions_firstMatch(_, _, _, _, _)
select_all_applicable_actions_firstMatch(c, acts, yn, ex, i) ==
  IF i > Len(acts) THEN c
  ELSE LET c1 == [c EXCEPT !.queries = Append(@, YesNoQuery(acts[i].name))] IN
       IF ask_yes_no_question(yn[i])
         THEN LET c2 == extract_parameters([c1 EXCEPT !.extracted = EmptyMap],
                           acts[i].name, acts[i].parameters, ex, 1)
              IN [c2 EXCEPT !.selected =
                       Append(@, [name |-> acts[i].name, parameters |-> c2.extracted])]
         ELSE select_all_applicable_actions_firstMatch(c1, acts, yn, ex, i + 1)

\* Variant: a selected action is put in front of the list.
RECURSIVE select_all_applicable_actions_newestFirst(_, _, _, _, _)
select_all_applicable_actions_newestFirst(c, acts, yn, ex, i) ==
  IF i > Len(acts) THEN c
  ELSE LET c1 == [c EXCEPT !.queries = Append(@, YesNoQuery(acts[i].name))] IN
       IF ask_yes_no_question(yn[i])
         THEN LET c2 == extract_parameters([c1 EXCEPT !.extracted = EmptyMap],
                           acts[i].name, acts[i].parameters, ex, 1)
              IN select_all_applicable_actions_newestFirst(
                   [c2 EXCEPT !.selected =
                       <<[name |-> acts[i].name, parameters |-> c2.extracted]>> \o @],
                   acts, yn, ex, i + 1)
         ELSE select_all_applicable_actions_newestFirst(c1, acts, yn, ex, i + 1)

\* Variant: the parameters are extracted after all yes/no questions.
RECURSIVE select_all_applicable_actions_extractLast(_, _, _, _, _)
select_all_applicable_actions_extractLast(c, acts, yn, ex, i) ==
  IF i > Len(acts)
    THEN [c EXCEPT !.queries =
            SelectSeq(@, LAMBDA q : q.kind = "yes_no") \o
            SelectSeq(@, LAMBDA q : q.kind = "extract")]
  ELSE LET c1 == [c EXCEPT !.queries = Append(@, YesNoQuery(acts[i].name))] IN
       IF ask_yes_no_question(yn[i])
         THEN LET c2 == extract_parameters([c1 EXCEPT !.extracted = EmptyMap],
                           acts[i].name, acts[i].parameters, ex, 1)
              IN select_all_applicable_actions_extractLast(
                   [c2 EXCEPT !.selected =
                       Append(@, [name |-> acts[i].name, parameters |-> c2.extracted])],
                   acts, yn, ex, i + 1)
         ELSE select_all_applicable_actions_extractLast(c1, acts, yn, ex, i + 1)

\* The loop over self.actions.items(), from action i on; yn[i] is what the
\* oracle does with the yes/no query of action i, ex[<<n, p>>] what it does
\* with the extraction query for parameter p of action n.
RECURSIVE select_all_applicable_actions(_, _, _, _, _)
select_all_applicable_actions(c, acts, yn, ex, i) ==
  IF i > Len(acts) THEN c
  ELSE LET c1 == [c EXCEPT !.queries = Append(@, YesNoQuery(acts[i].name))] IN
       IF ask_yes_no_question(yn[i])
         THEN LET c2 == extract_parameters([c1 EXCEPT !.extracted = EmptyMap],
                           acts[i].name, acts[i].parameters, ex, 1)
              IN select_all_applicable_actions(
                   [c2 EXCEPT !.selected =
                       Append(@, [name |-> acts[i].name, parameters |-> c2.extracted])],
                   acts, yn, ex, i + 1)
         ELSE select_all_applicable_actions(c1, acts, yn, ex, i + 1)

\* get_available_actions: the registry's skills in the order of its dict,
\* each with its parameters.
get_available_actions(order) ==
  [i \in DOMAIN order |-> [name |-> order[i], parameters |-> parameters(order[i])]]

\* What the oracle does with a yes/no query: it answers yes, no or
\* something else, the connection fails before any chunk, it breaks after
\* the chunk "yes", or a line of the stream is not JSON.
YesNoReplies ==
  {Reply(<<"yes">>, "none"), Reply(<<"no">>, "none"), Reply(<<>>, "request"),
   Reply(<<"yes">>, "request"), Reply(<<"yes">>, "other")}

\* What the oracle does with an extraction query: it answers with a number,
\* with a word, with the sentinel, with nothing, or the connection fails.
ExtractReplies ==
  {Reply(<<"16">>, "none"), Reply(<<"true">>, "none"),
   Reply(<<"NOT_FOUND">>, "none"), Reply(<<>>, "none"), Reply(<<>>, "request")}

\* The extraction queries that the answers yn lead to.
Slots(acts, yn) ==
  UNION {{<<acts[i].name, acts[i].parameters[j].name>> :
            j \in DOMAIN acts[i].parameters} :
         i \in {h \in DOMAIN acts : ask_yes_no_question(yn[h])}}

\* The stores a chat process can find when it starts: none (first run), or
\* the records that earlier processes saved.
StoresAtStart ==
  {[n \in S |-> Skill(n, "codeA", n \in BuiltinVerified, 0, 0)] : S \in SUBSET Names}

\* The chat process: the import of skills.py constructs the registry.
InitChat ==
  /\ \E st \in StoresAtStart, ios \in [BuiltinNames -> IOs] :
       \E files \in Orders(DOMAIN st) :
         LET r == SkillRegistry(st, 0, ios, files) IN
           /\ skills = r.skills
           /\ compiled_functions = r.compiled
           /\ store = r.store
           /\ execution_logs = r.logs
           /\ clock = r.clock
           /\ printed = r.printed
           /\ clean = FALSE
           /\ last = Op("init", "", "", "")
  /\ actions = <<>>
  /\ queries = <<>>
  /\ selected = <<>>
  /\ answer = [text |-> <<>>, asked |-> FALSE, result |-> FALSE]
  /\ sandbox = NoCall
  /\ threads = NoThreads
  /\ gen = NoGen

\* TerminalChat.__init__
NewChat ==
  \E order \in Orders(DOMAIN skills) :
    /\ actions' = get_available_actions(order)
    /\ queries' = <<>>
    /\ selected' = <<>>
    /\ last' = Op("new_chat", "", "", "")
    /\ UNCHANGED <<skills, compiled_functions, store, execution_logs, clock,
                   printed, clean, answer, sandbox, threads, gen>>

\* chat_loop reads the next utterance; the selector starts with an empty
\* list.
Input ==
  /\ actions # <<>>
  /\ queries' = <<>>
  /\ selected' = <<>>
  /\ last' = Op("input", "", "", "")
  /\ UNCHANGED <<skills, compiled_functions, store, execution_logs, clock,
                 printed, clean, actions, answer, sandbox, threads, gen>>

\* The utterance is given to select_all_applicable_actions.
Select ==
  /\ actions # <<>>
  /\ last.op = "input"
  /\ \E yn \in [DOMAIN actions -> YesNoReplies] :
       \E ex \in [Slots(actions, yn) -> ExtractReplies] :
         LET c == select_all_applicable_actions(
                    [queries |-> <<>>, selected |-> <<>>, extracted |-> EmptyMap],
                    actions, yn, ex, 1) IN
           /\ queries' = c.queries
           /\ selected' = c.selected
           /\ last' = Op("select", "", "returned", [yn |-> yn, ex |-> ex])
  /\ UNCHANGED <<skills, compiled_functions, store, execution_logs, clock,
                 printed, clean, actions, answer, sandbox,
                 threads, gen>>

NextSelect ==
  \/ NewChat
  \/ Input
  \/ Select

SpecSelect == InitChat /\ [][NextSelect]_vars

\* --------------------------------- skill_generator.py: SafeCodeExecutor
\* What the child process writes to stdout, and to stderr.
Outputs ==
  {<<"SUCCESS">>, <<"SUCCESS", "LOG: hi">>, <<" ", "SUCCESS">>,
   <<"hello", "SUCCESS">>, <<"ERROR: boom">>, <<>>}

ErrorOutputs == {<<>>, <<"Traceback">>}

\* How long a child that ends before the timeout runs.
Durations == {0, 1, timeout_seconds - 1}

\* What the test script does with a candidate's code: whether and when the
\* process ends, its exit code, what it has written, and whether it leaves
\* a background process behind that holds its stdout and stderr.
Candidates ==
  [terminates : {TRUE}, runs : Durations, returncode : {0, 1},
   stdout : Outputs, stderr : ErrorOutputs, detached : BOOLEAN]
  \cup
  [terminates : {FALSE}, runs : {0}, returncode : {0},
   stdout : Outputs, stderr : {<<>>}, detached : {FALSE}]

Returned(passed, message) ==
  [kind |-> "returned", passed |-> passed, message |-> message]

Raised == [kind |-> "raised", passed |-> FALSE, message |-> <<>>]

TimeoutMessage ==
  <<"Code execution timed out after", ToString(timeout_seconds), "seconds">>

\* Variant: the timeout only ends the wait for a child that has ended.
TimerExpired_cooperative(h) ==
  h.elapsed >= timeout_seconds /\ h.child # "running"

\* subprocess.run(..., timeout=self.timeout_seconds): the wait is over.
TimerExpired(h) == h.elapsed >= timeout_seconds

\* communicate() has the exit status and the end of both pipes.
Completed(h) == h.child = "exited" /\ h.pipes = "closed"

\* The statements after subprocess.run returned.
test_result(result) ==
  LET output == strip(result.stdout) IN
  IF result.returncode = 0 /\ startswith(output, "SUCCESS")
    THEN Returned(TRUE, output)
    ELSE LET error_output == IF result.stderr # <<>> THEN result.stderr
                                                     ELSE result.stdout
         IN Returned(FALSE, <<"Code execution failed:">> \o error_output)

\* test_code_safely up to the wait in subprocess.run: the script is written
\* to a temporary file and the child is started.
Call ==
  /\ sandbox.pc \in {"idle", "done"}
  /\ \E c \in Candidates, tmp \in IOs, spawn \in IOs :
       sandbox' =
         IF tmp = "fail"
           THEN [NoCall EXCEPT !.pc = "done", !.candidate = c, !.result = Raised]
         ELSE IF spawn = "fail"
           THEN [NoCall EXCEPT !.pc = "done", !.candidate = c,
                               !.result = Returned(FALSE, <<"Failed to test code:">>)]
         ELSE [NoCall EXCEPT !.pc = "waiting", !.candidate = c,
                             !.child = "running", !.pipes = "open"]
  /\ last' = Op("test_code_safely", "", "", "")
  /\ UNCHANGED <<skills, compiled_functions, store, execution_logs, clock,
                 printed, clean, chatVars, threads, gen>>

\* A second passes while the parent waits; the model's clock stops at the
\* timeout.
Tick ==
  /\ sandbox.pc = "waiting"
  /\ sandbox.elapsed < timeout_seconds
  /\ ~Completed(sandbox)
  /\ (sandbox.child = "running" /\ sandbox.candidate.terminates)
       => sandbox.elapsed < sandbox.candidate.runs
  /\ sandbox' = [sandbox EXCEPT !.elapsed = @ + 1]
  /\ UNCHANGED <<skills, compiled_functions, store, execution_logs, clock,
                 last, printed, clean, chatVars, threads, gen>>

\* The child process ends by itself.
ChildExit ==
  /\ sandbox.pc = "waiting"
  /\ sandbox.child = "running"
  /\ sandbox.candidate.terminates
  /\ sandbox.elapsed = sandbox.candidate.runs
  /\ sandbox' = [sandbox EXCEPT !.child = "exited",
                                !.pipes = IF sandbox.candidate.detached
                                            THEN "open" ELSE "closed"]
  /\ UNCHANGED <<skills, compiled_functions, store, execution_logs, clock,
                 last, printed, clean, chatVars, threads, gen>>

\* subprocess.run returns the CompletedProcess.
Collect ==
  /\ sandbox.pc = "waiting"
  /\ Completed(sandbox)
  /\ sandbox' = [sandbox EXCEPT !.pc = "done",
                                !.result = test_result(sandbox.candidate)]
  /\ UNCHANGED <<skills, compiled_functions, store, execution_logs, clock,
                 last, printed, clean, chatVars, threads, gen>>

\* subprocess.run raises TimeoutExpired: it kills the child, waits for it
\* and closes its ends of the pipes.
Expire ==
  /\ sandbox.pc = "waiting"
  /\ TimerExpired(sandbox)
  /\ ~Completed(sandbox)
  /\ sandbox' = [sandbox EXCEPT !.pc = "done",
                                !.child = IF @ = "running" THEN "killed" ELSE @,
                                !.pipes = "closed",
                                !.result = Returned(FALSE, TimeoutMessage)]
  /\ UNCHANGED <<skills, compiled_functions, store, execution_logs, clock,
                 last, printed, clean, chatVars, threads, gen>>

\* The process of the skill generator.
InitHarness ==
  /\ InitRegistry
  /\ actions = <<>>
  /\ queries = <<>>
  /\ selected = <<>>
  /\ answer = [text |-> <<>>, asked |-> FALSE, result |-> FALSE]
  /\ sandbox = NoCall
  /\ threads = NoThreads
  /\ gen = NoGen

NextHarness ==
  \/ Call
  \/ Tick
  \/ ChildExit
  \/ Collect
  \/ Expire

SpecHarness == InitHarness /\ [][NextHarness]_vars

\* Time passes, a child that is due to end ends, and the parent runs when
\* it can.
SpecHarnessFair ==
  /\ SpecHarness
  /\ WF_vars(Tick)
  /\ WF_vars(ChildExit)
  /\ WF_vars(Collect)
  /\ WF_vars(Expire)

\* ------------------------------ ollama_middleware.py: concurrent requests
\* Variant: app.run(threaded=False), one request is handled at a time.
Threaded_off(t) ==
  \A u \in Threads \ {t} : threads[u].pc \in {"idle", "done"}

\* app.run(..., threaded=True): a request is handled in a thread of its own
\* when it arrives, whatever the other requests are doing; neither the
\* server nor the registry takes a lock.
Threaded(t) == TRUE

\* A request arrives whose prompt triggers one of the built-in skills, and
\* the skill is in the registry.
Request(t) ==
  /\ threads[t].pc \in {"idle", "done"}
  /\ Threaded(t)
  /\ \E n \in BuiltinNames \cap DOMAIN skills :
       threads' = [threads EXCEPT ![t] = [pc |-> "clear", skill |-> n, read |-> <<>>]]
  /\ last' = Op("request", "", "", t)
  /\ UNCHANGED <<skills, compiled_functions, store, execution_logs, clock,
                 printed, clean, chatVars, sandbox, gen>>

\* SKILL_REGISTRY.execution_logs.clear()
ClearT(t) ==
  /\ threads[t].pc = "clear"
  /\ execution_logs' = <<>>
  /\ threads' = [threads EXCEPT ![t].pc = "exec"]
  /\ last' = Op("clear", threads[t].skill, "", t)
  /\ UNCHANGED <<skills, compiled_functions, store, clock,
                 printed, clean, chatVars, sandbox, gen>>

\* SKILL_REGISTRY.execute_skill(name, ...)
ExecT(t) ==
  /\ threads[t].pc = "exec"
  /\ \E o \in TurnOutcomes :
       LET r == execute_skill(Cur, threads[t].skill, o) IN
         /\ Bounded(r)
         /\ InstallRegistry(r)
  /\ threads' = [threads EXCEPT ![t].pc = "read"]
  /\ last' = Op("exec", threads[t].skill, "", t)
  /\ clean' = FALSE
  /\ UNCHANGED <<chatVars, sandbox, gen>>

\* logs = SKILL_REGISTRY.get_logs()
ReadT(t) ==
  /\ threads[t].pc = "read"
  /\ threads' = [threads EXCEPT ![t].pc = "done", ![t].read = execution_logs]
  /\ last' = Op("read", threads[t].skill, "", t)
  /\ UNCHANGED <<skills, compiled_functions, store, execution_logs, clock,
                 printed, clean, chatVars, sandbox, gen>>

NextThreads ==
  \/ \E t \in Threads : Request(t)
  \/ \E t \in Threads : ClearT(t)
  \/ \E t \in Threads : ExecT(t)
  \/ \E t \in Threads : ReadT(t)

SpecThreads == Init /\ [][NextThreads]_vars

\* ------------------------ skill_generator.py: IncrementalSkillGenerator
max_attempts == 3

\* What build_skill_plan returns: the name and the code the model wrote,
\* and whether name, description and vibe phrases pass the basic checks.
Plans == [name : UserNames, function_code : Codes, basic : BOOLEAN]

\* 'def execute' in plan.function_code
HasDefExecute(code) == code # "no_execute"

\* What test_code_safely can give for a candidate's code: the script of a
\* code that does not compile or defines no execute ends with exit code 1.
SandboxResults(code) ==
  {Raised, Returned(FALSE, <<"Failed to test code:">>),
   Returned(FALSE, TimeoutMessage)}
  \cup {test_result(c) :
          c \in {d \in Candidates :
                   d.terminates /\ (code \notin GoodCodes => d.returncode = 1)}}

Checked(valid, raised, tested) ==
  [valid |-> valid, raised |-> raised, tested |-> tested]

\* Variant: the result of the sandbox test is not looked at.
validate_and_test_plan_ignoresSandbox(plan, result) ==
  IF ~(plan.basic /\ HasDefExecute(plan.function_code))
    THEN Checked(FALSE, FALSE, FALSE)
  ELSE IF result.kind = "raised" THEN Checked(FALSE, TRUE, TRUE)
  ELSE Checked(TRUE, FALSE, TRUE)

\* validate_and_test_plan: the basic checks, then the sandbox test of the
\* code, which is reached only when the basic checks found no error.
validate_and_test_plan(plan, result) ==
  IF ~(plan.basic /\ HasDefExecute(plan.function_code))
    THEN Checked(FALSE, FALSE, FALSE)
  ELSE IF result.kind = "raised" THEN Checked(FALSE, TRUE, TRUE)
  ELSE Checked(result.passed, FALSE, TRUE)

\* The end of an attempt that did not return a result: `continue`, the
\* return of the last attempt, or the return after the loop.
NextAttempt(g) ==
  IF g.attempt = max_attempts
    THEN [g EXCEPT !.pc = "done", !.success = FALSE, !.attempts = g.attempt]
    ELSE [g EXCEPT !.pc = "plan", !.attempt = @ + 1]

genUnchanged ==
  UNCHANGED <<skills, compiled_functions, store, execution_logs, clock,
              printed, clean, chatVars, sandbox, threads>>

\* generate_skill is called: the first attempt starts.
Generate ==
  /\ gen.pc \in {"idle", "done"}
  /\ gen' = [NoGen EXCEPT !.pc = "plan", !.attempt = 1]
  /\ last' = Op("generate_skill", "", "", "")
  /\ genUnchanged

\* build_skill_plan returns a plan, or raises what a query raised.
BuildPlan ==
  /\ gen.pc = "plan"
  /\ \/ \E plan \in Plans :
          /\ gen' = [gen EXCEPT !.pc = "test", !.plan = plan]
          /\ last' = Op("build_skill_plan", plan.name, "returned", "")
     \/ /\ gen' = NextAttempt(gen)
        /\ last' = Op("build_skill_plan", "", "raised", "")
  /\ genUnchanged

\* validate_and_test_plan and the branch on its result.
ValidateAndTest ==
  /\ gen.pc = "test"
  /\ \E result \in SandboxResults(gen.plan.function_code) :
       LET v == validate_and_test_plan(gen.plan, result) IN
         /\ gen' =
              LET g == [gen EXCEPT !.tested =
                          IF v.tested
                            THEN [attempt |-> gen.attempt,
                                  function_code |-> gen.plan.function_code,
                                  passed |-> result.kind = "returned" /\ result.passed]
                            ELSE NoTest]
              IN IF v.valid THEN [g EXCEPT !.pc = "register"] ELSE NextAttempt(g)
         /\ last' = Op("validate_and_test_plan", gen.plan.name,
                       IF v.raised THEN "raised"
                       ELSE IF v.valid THEN "True" ELSE "False", "")
  /\ genUnchanged

\* The Skill is built from the plan and given to register_skill; a False
\* is turned into an exception that ends the attempt.
RegisterCandidate ==
  /\ gen.pc = "register"
  /\ \E io \in IOs :
       LET skill == Skill(gen.plan.name, gen.plan.function_code, FALSE, 0, clock)
           r == register_skill([Cur EXCEPT !.clock = @ + 1], skill, io)
           g == [gen EXCEPT !.made = @ \cup {skill}]
       IN /\ Bounded(r)
          /\ InstallRegistry(r)
          /\ gen' = IF r.ok THEN [g EXCEPT !.pc = "vibe", !.registered = TRUE]
                            ELSE NextAttempt(g)
          /\ last' = Op("register_candidate", skill.name,
                        IF r.ok THEN "True" ELSE "False", skill)
  /\ clean' = FALSE
  /\ UNCHANGED <<chatVars, sandbox, threads>>

\* run_isolated_vibe_test and the return of the result; the result of the
\* vibe test does not change success.
VibeTest ==
  /\ gen.pc = "vibe"
  /\ \E vibe_passed \in BOOLEAN :
       /\ gen' = [gen EXCEPT !.pc = "done", !.success = TRUE,
                             !.attempts = gen.attempt]
       /\ last' = Op("run_isolated_vibe_test", gen.plan.name,
                     IF vibe_passed THEN "True" ELSE "False", "")
  /\ genUnchanged

NextGenerate ==
  \/ Generate
  \/ BuildPlan
  \/ ValidateAndTest
  \/ RegisterCandidate
  \/ VibeTest

SpecGenerate == Init /\ [][NextGenerate]_vars

\* The registry and its direct callers.
Next ==
  \/ Register
  \/ Execute
  \/ ClearLogs
  \/ Reload
  \/ Delete

Spec == Init /\ [][Next]_vars

\* The routes of the skill editor.
NextEditor ==
  \/ Create
  \/ Update
  \/ Delete
  \/ Import
  \/ Reload

SpecEditor == Init /\ [][NextEditor]_vars

\* Chat turns.
NextTurn ==
  \/ Turn
  \/ Register
  \/ ClearLogs

SpecTurn == Init /\ [][NextTurn]_vars

\* Registrations and constructions of a registry on the store.
NextPersist ==
  \/ Register
  \/ ClearLogs
  \/ Reload

SpecPersist == Init /\ [][NextPersist]_vars

\* The store directory with files damaged from outside, and constructions
\* of a registry on it.
NextStore ==
  \/ Corrupt
  \/ Reload

SpecStore == Init /\ [][NextStore]_vars

\* ------------------------------------------------------------ properties
EditorOps == {"create", "update", "delete", "import"}

Rejections == {"403", "404", "409", "400", "skipped"}

SystemTags == {"unknown", "not_compiled", "exec_error", "reg_error"}

\* C1: no request of the editor (create, update, delete, import) replaces or
\* removes a skill that is verified in the registry: its entry in the map and
\* its record in the store stay what they were, and a request that names it
\* is rejected.
C1_VerifiedSkillsUntouchedByEditor ==
  [][last'.op \in EditorOps =>
       \A n \in DOMAIN skills :
         skills[n].verified =>
           /\ n \in DOMAIN skills' /\ skills'[n] = skills[n]
           /\ n \in DOMAIN store => (n \in DOMAIN store' /\ store'[n] = store[n])
           /\ last'.name = n => last'.res \in Rejections]_vars

\* C2: register_skill on code that does not compile returns False and leaves
\* the skills map, the compiled-function map and the store as they were; a
\* name that was not registered is still not registered.
C2_CompileFailureChangesNothing ==
  [][(last'.op = "register" /\ last'.input = "compile_error") =>
       /\ last'.res = "False"
       /\ skills' = skills
       /\ compiled_functions' = compiled_functions
       /\ store' = store
       /\ last'.name \notin DOMAIN skills => last'.name \notin DOMAIN skills']_vars

C2_Witness ==
  /\ last.op = "register"
  /\ last.input = "compile_error"
  /\ last.res = "False"
  /\ last.name \notin DOMAIN skills

\* C3: the skills map and the compiled-function map have the same names, and
\* the callable stored for a skill is the one its current function_code
\* compiles to.
C3_MapsAgree ==
  /\ DOMAIN skills = DOMAIN compiled_functions
  /\ \A n \in DOMAIN skills :
       /\ compile_skill_function(skills[n].function_code).ok
       /\ compiled_functions[n] = compile_skill_function(skills[n].function_code).func

C3_Witness ==
  /\ last.op = "register"
  /\ last.res = "True"
  /\ last.name \in BuiltinNames
  /\ skills[last.name].function_code = "codeB"
  /\ compiled_functions[last.name] = "codeB"

\* C4: register_skill never raises, and when it returns False the skills map
\* and the compiled-function map are what they were before the call.
C4_FailedRegisterChangesNoMap ==
  [][last'.op = "register" =>
       /\ last'.res # "raised"
       /\ last'.res = "False" =>
            (skills' = skills /\ compiled_functions' = compiled_functions)]_vars

\* What a turn over list leaves in the log when every skill of the list is
\* executed: one System line for an unknown name or a callable that raised,
\* the skill's output otherwise.
RECURSIVE TurnLog(_, _, _, _)
TurnLog(known, list, outs, i) ==
  IF i > Len(list) THEN <<>>
  ELSE (IF list[i] \notin known THEN <<LogLine("unknown", list[i])>>
        ELSE IF outs[i] = "raise" THEN <<LogLine("exec_error", list[i])>>
        ELSE <<LogLine("out", list[i])>>)
       \o TurnLog(known, list, outs, i + 1)

Occurrences(list, n) == Cardinality({i \in 1..Len(list) : list[i] = n})

\* C5: in a turn over a list of skills, a callable that raises does not stop
\* the turn: execute_skill returns, the log gets the System error line of
\* that skill, and every skill of the list is executed, in order.
C5_RaisingSkillDoesNotAbortTurn ==
  [][last'.op = "turn" =>
       /\ last'.res = "returned"
       /\ execution_logs' =
            TurnLog(DOMAIN skills, last'.input.list, last'.input.outs, 1)
       /\ \A n \in DOMAIN skills :
            skills'[n].execution_count =
              skills[n].execution_count + Occurrences(last'.input.list, n)]_vars

C5_Witness ==
  /\ last.op = "turn"
  /\ Len(execution_logs) = 2
  /\ execution_logs[1].tag = "exec_error"
  /\ execution_logs[2].tag = "out"

\* C6: execute_skill on a registered skill raises its execution_count by
\* exactly 1, whether the callable returns or raises.
C6_ExecuteCountsOnce ==
  [][(last'.op = "execute" /\ last'.name \in DOMAIN skills) =>
       /\ last'.name \in DOMAIN skills'
       /\ skills'[last'.name].execution_count =
            skills[last'.name].execution_count + 1]_vars

C6_Witness ==
  /\ last.op = "execute"
  /\ last.input = "raise"
  /\ last.name \in DOMAIN skills
  /\ skills[last.name].execution_count = MaxExec

\* C7: the execution_count of a skill name never decreases, whatever the
\* operation: execute, re-registration, reload of the registry.
C7_CountNeverDecreases ==
  [][\A n \in DOMAIN skills \cap DOMAIN skills' :
       skills'[n].execution_count >= skills[n].execution_count]_vars

\* C8: after execute_skill on a registered skill (the save, where it is
\* attempted, not failing), the record in the store has the execution_count
\* and last_modified of the skill in memory.
C8_TelemetryPersisted ==
  (/\ last.op = "execute"
   /\ last.input \in {"return", "raise"}
   /\ last.name \in DOMAIN skills) =>
     /\ last.name \in DOMAIN store
     /\ store[last.name].execution_count = skills[last.name].execution_count
     /\ store[last.name].last_modified = skills[last.name].last_modified

\* C9: execute_skill on a name that is not registered does not raise, appends
\* one System line to the log and changes nothing else.
C9_UnknownNameOnlyLogs ==
  [][(last'.op = "execute" /\ last'.name \notin DOMAIN skills) =>
       /\ last'.res = "returned"
       /\ Len(execution_logs') = Len(execution_logs) + 1
       /\ SubSeq(execution_logs', 1, Len(execution_logs)) = execution_logs
       /\ execution_logs'[Len(execution_logs')].tag \in SystemTags
       /\ skills' = skills
       /\ compiled_functions' = compiled_functions
       /\ store' = store]_vars

C9_Witness ==
  /\ last.op = "execute"
  /\ last.name \notin DOMAIN skills
  /\ execution_logs # <<>>
  /\ execution_logs[Len(execution_logs)] = LogLine("unknown", last.name)

\* The names a registry constructed on store st can hold, over every way the
\* saves of the built-in bootstrap can go.
NamesAfterLoad(st) ==
  UNION {DOMAIN SkillRegistry(st, 0, ios, files).skills :
           ios \in [BuiltinNames -> IOs], files \in Orders(DOMAIN st)}

DeletedFromAll(n) ==
  /\ n \notin DOMAIN skills'
  /\ n \notin DOMAIN compiled_functions'
  /\ n \notin DOMAIN store'
  /\ skills' = Del(skills, n)
  /\ compiled_functions' = Del(compiled_functions, n)
  /\ store' = Del(store, n)

\* C10 (as stated): deleting a non-verified skill through the editor removes
\* it from the skills map, the compiled-function map and the store, leaves
\* every other skill as it was, and no registry loaded from the store
\* afterwards contains it.
C10_DeletedSkillNeverLoadedAgain ==
  [][(last'.op = "delete" /\ last'.res = "200") =>
       /\ DeletedFromAll(last'.name)
       /\ last'.name \notin NamesAfterLoad(store')]_vars

\* C10 (amended): as above, but a registry loaded afterwards does not
\* contain the name as long as some record of the store still loads; when
\* none does, the constructor installs the built-in set, and the name is in
\* the new registry exactly if it is a built-in name.
C10_DeletedSkillGoneUnlessBootstrapped ==
  [][(last'.op = "delete" /\ last'.res = "200") =>
       /\ DeletedFromAll(last'.name)
       /\ (\E f \in DOMAIN store' : compile_skill_function(store'[f].function_code).ok) =>
            last'.name \notin NamesAfterLoad(store')
       /\ (\A f \in DOMAIN store' : ~compile_skill_function(store'[f].function_code).ok) =>
            (last'.name \in NamesAfterLoad(store') <=> last'.name \in BuiltinNames)]_vars

C10_Witness ==
  /\ last.op = "delete"
  /\ last.res = "200"
  /\ last.name \notin DOMAIN skills
  /\ last.name \notin DOMAIN store
  /\ DOMAIN store # {}
  /\ DOMAIN skills # {}

ValidFiles(st) ==
  {f \in DOMAIN st :
     /\ DOMAIN st[f] = SkillFields
     /\ st[f].function_code \in GoodCodes}

\* C12: constructing a registry on a store with valid and corrupted records
\* does not raise; every valid record is loaded as it is stored, every
\* corrupted file is reported and skipped, and when some valid record
\* exists the registry holds exactly the valid ones.
C12_CorruptedRecordsSkipped ==
  [][last'.op = "reload" =>
       /\ last'.res = "returned"
       /\ printed' = DOMAIN store \ ValidFiles(store)
       /\ \A f \in ValidFiles(store) :
            /\ store[f].name \in DOMAIN skills'
            /\ skills'[store[f].name] = store[f]
       /\ ValidFiles(store) # {} =>
            DOMAIN skills' = {store[f].name : f \in ValidFiles(store)}]_vars

C12_Witness ==
  /\ last.op = "reload"
  /\ Cardinality(printed) >= 2
  /\ \E f \in printed : store[f] = InvalidJson
  /\ \E f \in printed : DOMAIN store[f] = SkillFields
  /\ DOMAIN skills # {}
  /\ \A n \in DOMAIN skills : n \notin printed

\* The positions of text that belong to a thinking block: a block opens at
\* an opening marker outside every earlier block that has a closing marker
\* behind it, and ends at the first such closing marker.
BlockEnd(text, j) ==
  IF \E k \in (j + 1)..Len(text) : text[k] = "</think>"
    THEN CHOOSE k \in (j + 1)..Len(text) :
           /\ text[k] = "</think>"
           /\ \A m \in (j + 1)..(k - 1) : text[m] # "</think>"
    ELSE 0

RECURSIVE Opens(_, _)
Opens(text, j) ==
  /\ text[j] = "<think>"
  /\ BlockEnd(text, j) # 0
  /\ \A h \in 1..(j - 1) : ~(Opens(text, h) /\ BlockEnd(text, h) >= j)

InBlock(text, i) ==
  \E j \in 1..i : Opens(text, j) /\ BlockEnd(text, j) >= i

\* The first token of text that is outside every block and not whitespace.
FirstWord(text) ==
  LET outside == {i \in DOMAIN text : ~InBlock(text, i) /\ text[i] # " "} IN
  IF outside = {} THEN "" ELSE text[CHOOSE i \in outside : \A j \in outside : i <= j]

\* C15: the answer of the oracle selects the skill exactly when, with the
\* thinking blocks removed, lowercased and trimmed, it starts with "yes".
C15_SelectedIffStartsWithYes ==
  answer.asked =>
    (answer.result <=> (FirstWord(answer.text) \in {"yes", "YES"}))

C15_Witness ==
  /\ last.op = "ask"
  /\ answer.result
  /\ answer.text = <<"<think>", "no", "</think>", "YES">>


\* ------------------------------------------------ the action selector
ActionNames(acts) == [i \in DOMAIN acts |-> acts[i].name]

YesNoQueries(qs) == SelectSeq(qs, LAMBDA q : q.kind = "yes_no")

\* The names of the actions whose yes/no answer was accepted, in the order
\* of the table.
RECURSIVE AcceptedNames(_, _, _)
AcceptedNames(acts, yn, i) ==
  IF i > Len(acts) THEN <<>>
  ELSE (IF ask_yes_no_question(yn[i]) THEN <<acts[i].name>> ELSE <<>>)
         \o AcceptedNames(acts, yn, i + 1)

\* C13: for one utterance the selector sends exactly one yes/no query for
\* every registered skill, in the order of the table, whatever the answers
\* to the earlier queries were (accepted, rejected, unclear or failed).
C13_OneYesNoQueryPerSkill ==
  [][last'.op = "select" =>
       /\ [i \in DOMAIN YesNoQueries(queries') |-> YesNoQueries(queries')[i].skill]
            = ActionNames(actions)
       /\ \A n \in DOMAIN skills :
            Cardinality({i \in DOMAIN queries' : queries'[i] = YesNoQuery(n)}) = 1
       /\ \A i \in DOMAIN queries' :
            queries'[i].kind = "yes_no" => queries'[i].skill \in DOMAIN skills]_vars

\* Three skills; the first is accepted, the second call fails, and the third
\* is still asked.
C13_Witness ==
  /\ last.op = "select"
  /\ Len(actions) = 3
  /\ ask_yes_no_question(last.input.yn[1])
  /\ last.input.yn[2].fault = "other"
  /\ Len(YesNoQueries(queries)) = 3
  /\ queries[Len(queries)] = YesNoQuery(actions[3].name)

\* C14: the list returned by the selector holds exactly the skills whose
\* yes/no answer was accepted, each once, in the order of the table.
C14_SelectedAreTheAccepted ==
  [][last'.op = "select" =>
       /\ [i \in DOMAIN selected' |-> selected'[i].name]
            = AcceptedNames(actions, last'.input.yn, 1)
       /\ \A i, j \in DOMAIN selected' :
            selected'[i].name = selected'[j].name => i = j]_vars

\* Two of three skills are selected for the same utterance.
C14_Witness ==
  /\ last.op = "select"
  /\ Len(actions) = 3
  /\ Len(selected) = 2
  /\ ~ask_yes_no_question(last.input.yn[2])
  /\ selected[1].name = actions[1].name
  /\ selected[2].name = actions[3].name

\* The queries of one utterance as the claim describes them: for each action
\* its yes/no query, followed, if the answer was accepted, by one extraction
\* query for each declared parameter.
RECURSIVE ExpectedQueries(_, _, _)
ExpectedQueries(acts, yn, i) ==
  IF i > Len(acts) THEN <<>>
  ELSE <<YesNoQuery(acts[i].name)>>
       \o (IF ask_yes_no_question(yn[i])
             THEN [j \in DOMAIN acts[i].parameters |->
                     ExtractQuery(acts[i].name, acts[i].parameters[j].name)]
             ELSE <<>>)
       \o ExpectedQueries(acts, yn, i + 1)

RECURSIVE DeclaredParameters(_, _)
DeclaredParameters(sel, i) ==
  IF i > Len(sel) THEN 0
  ELSE Len(parameters(sel[i].name)) + DeclaredParameters(sel, i + 1)

\* C18: extraction queries are sent only for accepted skills, one for each
\* declared parameter, between that skill's yes/no query and the next
\* skill's; an utterance costs (number of skills) + (number of declared
\* parameters of the selected skills) queries.
C18_ExtractionQueriesFollowAcceptance ==
  [][last'.op = "select" =>
       /\ queries' = ExpectedQueries(actions, last'.input.yn, 1)
       /\ Len(queries') = Len(actions) + DeclaredParameters(selected', 1)]_vars

\* A skill with three parameters is accepted between two other skills, one of
\* which is accepted too.
C18_Witness ==
  /\ last.op = "select"
  /\ Len(queries) = 6
  /\ Len(selected) = 2
  /\ queries[1].kind = "yes_no"
  /\ queries[2] = YesNoQuery("alpha")
  /\ queries[3] = ExtractQuery("alpha", "location")
  /\ queries[4] = ExtractQuery("alpha", "number")
  /\ queries[5] = ExtractQuery("alpha", "flag")
  /\ queries[6].kind = "yes_no"

\* C16 as stated: a skill whose yes/no call failed is not selected, and
\* the skills after it are still asked.
C16_FailedCallRejects ==
  [][last'.op = "select" =>
       /\ last'.res = "returned"
       /\ \A i \in DOMAIN actions :
            last'.input.yn[i].fault # "none" =>
              \A k \in DOMAIN selected' : selected'[k].name # actions[i].name
       /\ Len(YesNoQueries(queries')) = Len(actions)]_vars

\* C17 as stated: a parameter whose extraction call failed has no value in
\* the extracted parameters of its skill.
C17_FailedExtractionIsAbsent ==
  [][last'.op = "select" =>
       /\ last'.res = "returned"
       /\ \A k \in DOMAIN selected' :
            \A j \in DOMAIN parameters(selected'[k].name) :
              LET p == parameters(selected'[k].name)[j].name IN
                last'.input.ex[<<selected'[k].name, p>>].fault # "none" =>
                  p \notin DOMAIN selected'[k].parameters]_vars

\* ------------------------------------------------- the sandbox harness
\* C19 as stated: passed is true exactly when the child ended before the
\* timeout with exit code 0 and a stdout that, leading whitespace aside,
\* begins with SUCCESS; a child that ran into the timeout gives passed=false
\* with the timeout message, every other outcome passed=false with another
\* message.
C19_PassedIffCleanSuccess ==
  (sandbox.pc = "done" /\ sandbox.result.kind = "returned") =>
    LET c == sandbox.candidate
        success == c.returncode = 0 /\ startswith(lstrip(c.stdout), "SUCCESS")
    IN /\ sandbox.result.passed <=> (sandbox.child = "exited" /\ success)
       /\ sandbox.child = "killed" =>
            ~sandbox.result.passed /\ sandbox.result.message = TimeoutMessage
       /\ (sandbox.child # "killed" /\ ~sandbox.result.passed) =>
            sandbox.result.message # TimeoutMessage

\* C20: every call of the harness that waits for its child comes back,
\* also when the child never ends.
C20_HarnessReturns ==
  (sandbox.pc = "waiting") ~> (sandbox.pc = "done" /\ sandbox.result.kind = "returned")

\* A child that never ends was killed at the timeout and the call returned.
C20_Witness ==
  /\ sandbox.pc = "done"
  /\ ~sandbox.candidate.terminates
  /\ sandbox.child = "killed"
  /\ sandbox.elapsed = timeout_seconds
  /\ sandbox.result = Returned(FALSE, TimeoutMessage)

\* C26: constructing a registry installs the built-in set exactly when no
\* record of the store loads (empty store, or only corrupted records); when
\* a record loads, the registry holds the loaded records as they are stored
\* and nothing else.
C26_BootstrapOnlyWhenNothingLoaded ==
  [][last'.op = "reload" =>
       IF ValidFiles(store) = {}
         THEN skills' = [b \in BuiltinNames |->
                           Skill(b, "codeA", b \in BuiltinVerified, 0, clock)]
         ELSE skills' = [n \in {store[f].name : f \in ValidFiles(store)} |->
                           store[n]]]_vars

\* A store with nothing but corrupted files was loaded: the files were
\* reported and the built-in set was installed by this construction.
C26_Witness ==
  /\ last.op = "reload"
  /\ printed # {}
  /\ DOMAIN skills = BuiltinNames
  /\ \A b \in BuiltinNames : skills[b].last_modified = clock - 1
  /\ clock > 1

\* The capabilities the specification allows a skill's callable.
Allowlist == {"log", "time", "math", "json", "file_read"}

\* C24 as stated: a compiled callable is given the log primitive, the
\* current time, math, JSON and file read, and nothing else: no handle to
\* the process environment, to process spawning, to the interpreter or to
\* the registry.
C24_OnlyAllowlistedCapabilities ==
  \A n \in DOMAIN compiled_functions :
    Capabilities(compiled_functions[n]) \subseteq Allowlist

\* C27: re-registering an existing name with code that compiles replaces
\* the whole definition: the record in the map is the new one (it carries
\* the time of this call), the callable is the one compiled from the new
\* code, the stored record is the new one, and the number of skills is
\* unchanged; every execute of a registered name calls the callable that
\* was compiled from the code its record holds at that time.
C27_ReRegisterIsFullReplace ==
  [][/\ (last'.op = "register" /\ last'.res = "True" /\ last'.name \in DOMAIN skills) =>
          LET n == last'.name IN
            /\ skills'[n].last_modified = clock
            /\ skills'[n].name = n
            /\ compiled_functions'[n] =
                 compile_skill_function(skills'[n].function_code).func
            /\ n \in DOMAIN store' /\ store'[n] = skills'[n]
            /\ DOMAIN skills' = DOMAIN skills
            /\ \A m \in DOMAIN skills \ {n} :
                 skills'[m] = skills[m] /\ compiled_functions'[m] = compiled_functions[m]
     /\ (last'.op = "execute" /\ last'.name \in DOMAIN skills
           /\ last'.name \in DOMAIN compiled_functions) =>
          compiled_functions[last'.name] =
            compile_skill_function(skills[last'.name].function_code).func]_vars

\* A built-in was registered again with other code.
C27_Witness ==
  /\ last.op = "register"
  /\ last.res = "True"
  /\ last.name = "customPythonShell"
  /\ skills["customPythonShell"].function_code = "codeB"
  /\ skills["customPythonShell"].last_modified > 0
  /\ compiled_functions["customPythonShell"] = "codeB"
  /\ store["customPythonShell"] = skills["customPythonShell"]
  /\ DOMAIN skills = BuiltinNames

\* C22: with turns run one at a time, the log read back at the end of a
\* turn that executes at least one skill holds one line per execution of
\* the turn, in execution order, and nothing else: no line of an earlier
\* turn and no line of an earlier failed registration.
C22_TurnLogHoldsOnlyTheTurn ==
  [][(last'.op = "turn" /\ last'.input.list # <<>>) =>
       /\ Len(execution_logs') = Len(last'.input.list)
       /\ \A i \in DOMAIN execution_logs' :
            /\ execution_logs'[i].name = last'.input.list[i]
            /\ execution_logs'[i].tag \in {"out", "exec_error", "unknown", "not_compiled"}
            /\ execution_logs'[i].tag = "out" <=>
                 (last'.input.list[i] \in DOMAIN skills /\ last'.input.outs[i] = "return")]_vars

\* A turn of one skill that an earlier turn had executed too: the log holds
\* the one line of this turn.
C22_Witness ==
  /\ last.op = "turn"
  /\ Len(last.input.list) = 1
  /\ last.input.list[1] = "customPythonShell"
  /\ skills["customPythonShell"].execution_count = 2
  /\ execution_logs = <<LogLine("exec_error", "customPythonShell")>>

\* ------------------------------------------------- concurrent requests
\* C23: nothing serializes the invocations on the registry: whatever the
\* other request is doing, a request that arrives is begun if its skill is
\* registered, a request that is about to clear the log clears it, and a
\* request that is about to read the log reads it.
C23_NoLockOnTheLog ==
  \A t \in Threads :
    /\ (threads[t].pc \in {"idle", "done"} /\ BuiltinNames \cap DOMAIN skills # {})
         => ENABLED Request(t)
    /\ threads[t].pc = "clear" => ENABLED ClearT(t)
    /\ threads[t].pc = "read" => ENABLED ReadT(t)

\* Two requests for different skills have interleaved: the first has read
\* the line the second logged, and the line it logged itself is lost.
C23_Witness ==
  /\ threads[1].pc = "done"
  /\ threads[2].pc \in {"read", "done"}
  /\ threads[1].skill # threads[2].skill
  /\ threads[1].read # <<>>
  /\ \A i \in DOMAIN threads[1].read : threads[1].read[i].name = threads[2].skill

\* The answer to an extraction query is empty or holds the sentinel.
NoValueAnswer(reply) ==
  /\ reply.fault = "none"
  /\ LET cleaned == strip(remove_thinking_blocks(reply.text)) IN
       \/ cleaned = <<>>
       \/ \E i \in DOMAIN cleaned : cleaned[i] = "NOT_FOUND"

\* C28: the extracted parameters of a selected skill are exactly the
\* declared parameters whose extraction gave a value, each with that value;
\* a parameter whose answer is empty or holds NOT_FOUND is left out, and the
\* skill is in the returned list all the same, also when the parameter is
\* declared required.
C28_AbsentParametersAreLeftOut ==
  [][last'.op = "select" =>
       /\ \A i \in DOMAIN actions :
            ask_yes_no_question(last'.input.yn[i]) =>
              \E k \in DOMAIN selected' : selected'[k].name = actions[i].name
       /\ \A k \in DOMAIN selected' :
            LET n == selected'[k].name
                got == selected'[k].parameters
            IN /\ DOMAIN got \subseteq
                    {parameters(n)[j].name : j \in DOMAIN parameters(n)}
               /\ \A j \in DOMAIN parameters(n) :
                    LET p == parameters(n)[j]
                        reply == last'.input.ex[<<n, p.name>>]
                        value == extract_single_parameter(p, reply)
                    IN /\ p.name \in DOMAIN got <=> value # None
                       /\ p.name \in DOMAIN got => got[p.name] = value
                       /\ NoValueAnswer(reply) => p.name \notin DOMAIN got]_vars

\* A skill is selected whose required parameter was answered with the
\* sentinel and whose boolean parameter was answered with nothing: only the
\* number is among its extracted parameters.
C28_Witness ==
  /\ last.op = "select"
  /\ \E k \in DOMAIN selected :
       /\ selected[k].name = "alpha"
       /\ DOMAIN selected[k].parameters = {"number"}
       /\ selected[k].parameters["number"] = [type |-> "number", text |-> <<"16">>]
       /\ last.input.ex[<<"alpha", "location">>] = Reply(<<"NOT_FOUND">>, "none")
       /\ last.input.ex[<<"alpha", "flag">>] = Reply(<<>>, "none")

\* C29 as stated: for a parameter declared boolean the extractor gives a
\* boolean (or nothing), never the text of the answer; for a parameter
\* declared string it gives the trimmed text.
C29_BooleanIsMapped ==
  [][last'.op = "select" =>
       \A k \in DOMAIN selected' :
         LET n == selected'[k].name
             got == selected'[k].parameters
         IN \A j \in DOMAIN parameters(n) :
              LET p == parameters(n)[j] IN
                p.name \in DOMAIN got =>
                  /\ p.type = "boolean" => got[p.name].type = "boolean"
                  /\ p.type = "string" => got[p.name].type = "string"]_vars

\* The parameters object of a request declares a parameter whose type is
\* none of string, number, boolean.
HasInvalidType(params) ==
  \E p \in DOMAIN params : params[p].type \notin valid_parameter_types

\* C25: a skill definition with a parameter of a type outside string,
\* number, boolean is invalid for the validator whatever its code is, and a
\* create, update or import of it changes neither the skills, nor the
\* compiled callables, nor the store: nothing is stored under a valid type.
C25_InvalidParameterTypeIsRejected ==
  [][(last'.op \in {"create", "update", "import"} /\ HasInvalidType(last'.input)) =>
       /\ skills' = skills
       /\ compiled_functions' = compiled_functions
       /\ store' = store
       /\ last'.res \in {"400", "403", "404", "409", "skipped"}
       /\ \A data \in Payloads :
            HasInvalidType(data.parameters) => ~validate_skill_data(data)]_vars

\* A create request that declares a parameter of an invalid type, for a
\* name that is free, was answered 400.
C25_Witness ==
  /\ last.op = "create"
  /\ HasInvalidType(last.input)
  /\ last.res = "400"
  /\ last.name \notin DOMAIN skills

\* C21: in generate_skill a step that calls register_skill follows a
\* sandbox test of the same attempt, on the same function_code, that
\* returned passed = true; a step in which validate_and_test_plan does not
\* return True changes neither the skills, nor the compiled callables, nor
\* the store, and no other step of the pipeline than the registration does.
C21_RegisterOnlyAfterSandboxPassed ==
  [][/\ last'.op = "register_candidate" =>
          /\ gen.tested.attempt = gen.attempt
          /\ gen.tested.function_code = last'.input.function_code
          /\ gen.tested.passed
     /\ (last'.op = "validate_and_test_plan" /\ last'.res # "True") =>
          /\ skills' = skills
          /\ compiled_functions' = compiled_functions
          /\ store' = store
     /\ (skills' # skills \/ compiled_functions' # compiled_functions
           \/ store' # store) => last'.op = "register_candidate"]_vars

\* The candidate of a second or third attempt was registered after the
\* candidates before it had failed.
C21_Witness ==
  /\ last.op = "register_candidate"
  /\ last.res = "True"
  /\ gen.attempt > 1
  /\ gen.tested.passed
  /\ last.name \in DOMAIN skills
  /\ skills[last.name] = last.input

\* C30 as stated: generate_skill returns after at most max_attempts
\* attempts, with success = true exactly when register_skill accepted a
\* candidate of the call, and when it returns success = false no Skill built
\* in one of its attempts is in the skills or in the store.
C30_FailureLeavesNoCandidate ==
  gen.pc = "done" =>
    /\ gen.attempts <= max_attempts
    /\ gen.success <=> gen.registered
    /\ ~gen.success =>
         \A s \in gen.made :
           /\ ~(s.name \in DOMAIN skills /\ skills[s.name] = s)
           /\ ~(s.name \in DOMAIN store /\ store[s.name] = s)

====
